---- MODULE Spec2Model ----
(***************************************************************************)
(* The deployment orchestrator of roughneck: do_deploy (stage resolution,  *)
(* the stage loop, the recovery menu, the DNS gate, completion and         *)
(* validation) with the collaborators it drives.                           *)
(***************************************************************************)
EXTENDS Integers, Sequences, FiniteSets, TLC

\* ---------------------------------------------------------------- bounds
MaxRuns == 2        \* invocations of do_deploy in one behaviour
MaxRetries == 1     \* operator-chosen re-runs (retry/reselect/edit) per invocation
MaxTextLen == 4     \* tokens in an error text handed to recovery_menu on its own

\* ------------------------------------------------------------ data types
NoIp == "none"
Addr == "203.0.113.9"
Ips == {NoIp, Addr}

\* the canonical stage order; do_deploy's four literal lists are suffixes of it
Canonical == <<"init", "apply", "ssh", "ansible">>
Stages == {"init", "apply", "ssh", "ansible"}

\* Python truthiness of Optional[str]
Truthy(s) == s # NoIp /\ s # ""

\* ----- diagnostic text: a sequence of tokens, a token being a piece of
\* ----- plain text or a double-quoted string
Lit(s) == [q |-> FALSE, s |-> s]
Quo(s) == [q |-> TRUE, s |-> s]
NoText == <<>>
TextGeneric == <<Lit("Error: timeout while waiting for state lock")>>
TextServerType ==
    <<Lit("Error:"), Lit("Server Type"), Quo("cpx31"), Lit("is unavailable in"), Quo("hel1")>>
TextResourceType ==
    <<Lit("Resource Type"), Quo("cpx31"), Lit("is unavailable in"), Quo("hel1")>>
TextNoTool == <<Lit("Terraform/tofu not found")>>
\* what a failing terraform apply can leave in ApplyResult.error (its output)
ApplyErrors == {NoText, TextGeneric, TextServerType, TextResourceType}

NoMatch == [found |-> FALSE, server_type |-> "", location |-> ""]

\* re.search(r'Server Type "([^"]+)" is unavailable in "([^"]+)"', error)
MatchAt(error, i) ==
    /\ i + 3 <= Len(error)
    /\ error[i] = Lit("Server Type")
    /\ error[i + 1].q /\ error[i + 1].s # ""
    /\ error[i + 2] = Lit("is unavailable in")
    /\ error[i + 3].q /\ error[i + 3].s # ""

detect_server_type_error_swapped(error) ==
    LET hits == {i \in 1..Len(error) : MatchAt(error, i)} IN
    IF hits = {} THEN NoMatch
    ELSE LET i == CHOOSE k \in hits : \A j \in hits : k <= j IN
         [found |-> TRUE, server_type |-> error[i + 3].s, location |-> error[i + 1].s]

detect_server_type_error(error) ==
    LET hits == {i \in 1..Len(error) : MatchAt(error, i)} IN
    IF hits = {} THEN NoMatch
    ELSE LET i == CHOOSE k \in hits : \A j \in hits : k <= j IN
         [found |-> TRUE, server_type |-> error[i + 1].s, location |-> error[i + 3].s]

\* ----- the deployment's persisted configuration (terraform.tfvars)
ServerTypes == {"cpx31", "cx22"}
UnreadableCfg ==
    [readable |-> FALSE, provider |-> "", enable_letsencrypt |-> FALSE,
     domain_name |-> "", hetzner_token |-> "", hetzner_server_type |-> ""]
AllCfgs ==
    [readable : {TRUE}, provider : {"hetzner", "aws"}, enable_letsencrypt : BOOLEAN,
     domain_name : {"", "dev.example.com"}, hetzner_token : {"", "tok"},
     hetzner_server_type : ServerTypes]
\* the configurations considered: a deployment on another provider carries no
\* Hetzner token, a domain is only kept with Let's Encrypt on, and Let's Encrypt
\* and the second server type are only combined with a Hetzner token
ReadableCfgs ==
    {c \in AllCfgs :
        /\ c.provider = "aws" => c.hetzner_token = "" /\ c.hetzner_server_type = "cpx31"
        /\ c.domain_name # "" => c.enable_letsencrypt
        /\ c.hetzner_token = "" =>
               (~c.enable_letsencrypt /\ c.hetzner_server_type = "cpx31")}
Cfgs == ReadableCfgs \cup {UnreadableCfg}

\* ----- the external tools: terraform.find_terraform_cmd(), ansible.find_ansible_cmd()
ToolSets == [tf : BOOLEAN, ans : BOOLEAN]
AllTools == [tf |-> TRUE, ans |-> TRUE]

\* check_prerequisites()
check_prerequisites(t) == t.tf /\ t.ans

VARIABLES
    \* external state: the configuration store, the infrastructure, the network
    ip,          \* config.get_deployment_ip(name)
    reachable,   \* whether port 22 of the server answers now
    hasState,    \* config.has_state_file(name)
    cfg,         \* config.read_tfvars(name)
    exists,      \* config.deployment_exists(name)
    tools,       \* which external tools are found on this machine
    \* the command that is running
    checked,     \* check_prerequisites() passed in this command
    status,      \* the exit status of a command that ended before do_deploy (-1: none)
    \* do_deploy's locals and position
    pc, stages, stage_idx, last_error, exitCode,
    menu,        \* the choices recovery_menu is showing (empty: no menu is up)
    \* history
    run,         \* number of invocations started
    retries,     \* operator-chosen re-runs in this invocation
    prev,        \* the most recent step of the orchestrator (a dispatch carries in
                 \* action the operator's choice that led to it, if one did)
    snap,        \* the snapshot the current invocation resolved from
    prevRes,     \* the resolution of the invocation before this one
    resume,      \* set when this invocation follows an abort with external state unchanged
    outcome,     \* "none" | "running" | "paused" | "completed"
    probeOk,     \* an SSH probe has succeeded in this invocation
    succeeded,   \* stages that have succeeded in this invocation
    summaryPrinted, validations,
    aborted,     \* what the last invocation left when the operator aborted
    flow,        \* the reselection flow the operator's last choice ran, if it ran one
    result,      \* the StageResult the latest run_stage returned
    calls,       \* the collaborator operations the latest run_stage called
    dispatched,  \* stages that have been dispatched in this invocation
    error_info,  \* recovery_menu's error_info, while its menu is up
    wait,        \* ssh.wait_for_ssh's position, clock and probes, while it is followed
    dns_confirmed, \* the DNS pause has let this deployment through, in any invocation
    reply,       \* what the operator answered at the latest prompt ("": none yet)
    \* the credential store
    store,       \* the encrypted credentials file: NoFile, or the list it holds
    credcall,    \* the latest call on the store and what it returned
    kept         \* per name, the data last added and not removed since (NoData: none)

cmdvars == <<exists, tools, checked, status>>
credvars == <<store, credcall, kept>>

env == <<ip, reachable, hasState, cfg>>
locals == <<pc, stages, stage_idx, last_error, exitCode, menu>>
hist == <<run, retries, prev, snap, prevRes, resume, outcome, probeOk, succeeded,
          summaryPrinted, validations, aborted, flow, result, calls, dispatched, wait,
          dns_confirmed, reply>>
vars == <<ip, reachable, hasState, cfg, pc, stages, stage_idx, last_error, exitCode,
          menu, run, retries, prev, snap, prevRes, resume, outcome, probeOk, succeeded,
          summaryPrinted, validations, aborted, flow, exists, tools, checked, status,
          result, calls, dispatched, error_info, wait, dns_confirmed, reply,
          store, credcall, kept>>

Ev(kind, stage, idx, ok, action, wrote) ==
    [kind |-> kind, stage |-> stage, idx |-> idx, ok |-> ok, action |-> action,
     wrote |-> wrote]
NoEv == Ev("none", "", 0, FALSE, "", FALSE)

\* the snapshot stage resolution reads: is_reachable is probed only for a known ip
Snapshot == [ip |-> ip, reach |-> (Truthy(ip) /\ reachable), state |-> hasState]
NoSnap == [ip |-> NoIp, reach |-> FALSE, state |-> FALSE]
NoResume == [valid |-> FALSE, remaining |-> <<>>, stage |-> ""]
NoRes == [valid |-> FALSE, snap |-> NoSnap, stages |-> <<>>]
NoAbort == [valid |-> FALSE, remaining |-> <<>>, stage |-> "", env |-> <<>>]
NoResult == [success |-> FALSE, error |-> NoText]
NoWait == [pc |-> "off", now |-> 0, probes |-> 0, hits |-> 0, slept |-> 0, ok |-> FALSE]
\* the credential store: names and data of the credentials considered
CredNames == {"hetzner-personal", "hetzner-work"}
CredData == {"tok1", "tok2"}
NoData == "none"
NoFile == "no file"
NoCall == [op |-> "none", name |-> "", data |-> NoData, ret |-> "none", load |-> "none"]
NoKept == [n \in CredNames |-> NoData]
NoFlow ==
    [ran |-> FALSE, handled |-> FALSE, raised |-> FALSE, before |-> UnreadableCfg,
     fetch |-> [err |-> FALSE, types |-> {}], sel |-> "cancelled",
     error |-> NoText, current_type |-> "", location |-> ""]

\* ------------------------------------------------------- stage resolution
\* do_deploy, "Smart resume": reach is the answer of ssh.is_reachable(ip), asked
\* only when ip is truthy
ResolveStagesStateFirst(ipv, reach, state) ==
    IF state THEN <<"apply", "ssh", "ansible">>
    ELSE IF Truthy(ipv) /\ reach THEN <<"ansible">>
    ELSE IF Truthy(ipv) THEN <<"ssh", "ansible">>
    ELSE <<"init", "apply", "ssh", "ansible">>

ResolveStagesReordered(ipv, reach, state) ==
    IF Truthy(ipv) /\ reach THEN <<"ansible">>
    ELSE IF Truthy(ipv) THEN <<"ansible", "ssh">>
    ELSE IF state THEN <<"apply", "ssh", "ansible">>
    ELSE <<"init", "apply", "ssh", "ansible">>

ResolveStagesFromSavedIndex(ipv, reach, state) ==
    IF run > 0 /\ stage_idx < Len(stages)
    THEN SubSeq(stages, stage_idx + 1, Len(stages))
    ELSE IF Truthy(ipv) /\ reach THEN <<"ansible">>
    ELSE IF Truthy(ipv) THEN <<"ssh", "ansible">>
    ELSE IF state THEN <<"apply", "ssh", "ansible">>
    ELSE <<"init", "apply", "ssh", "ansible">>

ResolveStagesFromAbort(ipv, reach, state) ==
    IF aborted.valid THEN aborted.remaining
    ELSE IF Truthy(ipv) /\ reach THEN <<"ansible">>
    ELSE IF Truthy(ipv) THEN <<"ssh", "ansible">>
    ELSE IF state THEN <<"apply", "ssh", "ansible">>
    ELSE <<"init", "apply", "ssh", "ansible">>

ResolveStages(ipv, reach, state) ==
    IF Truthy(ipv) /\ reach THEN <<"ansible">>
    ELSE IF Truthy(ipv) THEN <<"ssh", "ansible">>
    ELSE IF state THEN <<"apply", "ssh", "ansible">>
    ELSE <<"init", "apply", "ssh", "ansible">>

\* ---------------------------------------------------------- recovery menu
\* recovery_menu: the choices offered, in order
RecoveryChoicesAnyStage(stage, error) ==
    LET c0 == <<"retry">>
        c1 == IF error # NoText /\ detect_server_type_error(error).found
              THEN <<"reselect">> \o c0 ELSE c0
        c2 == IF stage \in {"apply", "ansible"} THEN Append(c1, "edit") ELSE c1
        c3 == IF stage \in {"apply", "ssh"} THEN Append(c2, "skip") ELSE c2
    IN Append(c3, "abort")

RecoveryChoicesSkipConfigure(stage, error) ==
    LET c0 == <<"retry">>
        c1 == IF stage = "apply" /\ error # NoText /\ detect_server_type_error(error).found
              THEN <<"reselect">> \o c0 ELSE c0
        c2 == IF stage \in {"apply", "ansible"} THEN Append(c1, "edit") ELSE c1
        c3 == IF stage \in {"apply", "ssh", "ansible"} THEN Append(c2, "skip") ELSE c2
    IN Append(c3, "abort")

RecoveryChoicesAbortBeforeSkip(stage, error) ==
    LET c0 == <<"retry">>
        c1 == IF stage = "apply" /\ error # NoText /\ detect_server_type_error(error).found
              THEN <<"reselect">> \o c0 ELSE c0
        c2 == IF stage \in {"apply", "ansible"} THEN Append(c1, "edit") ELSE c1
        c3 == Append(c2, "abort")
    IN IF stage \in {"apply", "ssh"} THEN Append(c3, "skip") ELSE c3

\* recovery_menu, "Check for server type error": error_info, NoMatch when the
\* classifier is not asked
ErrorInfoAnyStage(stage, error) ==
    IF error # NoText THEN detect_server_type_error(error) ELSE NoMatch
ErrorInfo(stage, error) ==
    IF stage = "apply" /\ error # NoText THEN detect_server_type_error(error) ELSE NoMatch

RecoveryChoicesEditInit(stage, error) ==
    LET c0 == <<"retry">>
        c1 == IF ErrorInfo(stage, error).found THEN <<"reselect">> \o c0 ELSE c0
        c2 == IF stage \in {"init", "apply", "ansible"} THEN Append(c1, "edit") ELSE c1
        c3 == IF stage \in {"apply", "ssh"} THEN Append(c2, "skip") ELSE c2
    IN Append(c3, "abort")

RecoveryChoicesSkipAlways(stage, error) ==
    LET c0 == <<"retry">>
        c1 == IF ErrorInfo(stage, error).found THEN <<"reselect">> \o c0 ELSE c0
        c2 == IF stage \in {"apply", "ansible"} THEN Append(c1, "edit") ELSE c1
        c3 == Append(c2, "skip")
    IN Append(c3, "abort")

RecoveryChoices(stage, error) ==
    LET c0 == <<"retry">>
        c1 == IF ErrorInfo(stage, error).found
              THEN <<"reselect">> \o c0 ELSE c0
        c2 == IF stage \in {"apply", "ansible"} THEN Append(c1, "edit") ELSE c1
        c3 == IF stage \in {"apply", "ssh"} THEN Append(c2, "skip") ELSE c2
    IN Append(c3, "abort")

Range(f) == {f[i] : i \in DOMAIN f}

\* prompts.select(...) or "abort": the operator picks an offered value or cancels
Cancelled == "cancelled"
MenuAnswers(choices) == Range(choices) \cup {Cancelled}
SelectOrRetry(answer) == IF answer = Cancelled THEN "retry" ELSE answer
SelectOrAbort(answer) == IF answer = Cancelled THEN "abort" ELSE answer

\* prompts.confirm(message, default=True): questionary's answer, or the default
\* when the prompt was cancelled
ConfirmAnswers == {"yes", "no", Cancelled}
confirm(answer, default) ==
    IF answer = Cancelled THEN default ELSE answer = "yes"

\* ------------------------------------------------- the reselection flow
\* hetzner.get_server_types(token, location): an API error, or the list of types
FetchResults ==
    {f \in [err : BOOLEAN, types : SUBSET ServerTypes] : f.err => f.types = {}}

\* config.write_tfvars(name, cfg): the stored record becomes the record written
write_tfvars(stored, c) == c

\* reselect_server_type: what it returns and the configuration it leaves, for a
\* fetch result and the operator's selection (Cancelled: none selected)
reselect_server_type_uncaught(c, fetch, sel) ==
    IF ~c.readable THEN [handled |-> FALSE, cfg |-> c, raised |-> FALSE]
    ELSE IF c.provider # "hetzner" THEN [handled |-> FALSE, cfg |-> c, raised |-> FALSE]
    ELSE IF c.hetzner_token = "" THEN [handled |-> FALSE, cfg |-> c, raised |-> FALSE]
    ELSE IF fetch.err THEN [handled |-> FALSE, cfg |-> c, raised |-> TRUE]
    ELSE IF fetch.types = {} THEN [handled |-> FALSE, cfg |-> c, raised |-> FALSE]
    ELSE IF sel = Cancelled THEN [handled |-> FALSE, cfg |-> c, raised |-> FALSE]
    ELSE [handled |-> TRUE, raised |-> FALSE,
          cfg |-> write_tfvars(c, [c EXCEPT !.hetzner_server_type = sel])]

reselect_server_type_not_written(c, fetch, sel) ==
    IF ~c.readable THEN [handled |-> FALSE, cfg |-> c, raised |-> FALSE]
    ELSE IF c.provider # "hetzner" THEN [handled |-> FALSE, cfg |-> c, raised |-> FALSE]
    ELSE IF c.hetzner_token = "" THEN [handled |-> FALSE, cfg |-> c, raised |-> FALSE]
    ELSE IF fetch.err THEN [handled |-> FALSE, cfg |-> c, raised |-> FALSE]
    ELSE IF fetch.types = {} THEN [handled |-> FALSE, cfg |-> c, raised |-> FALSE]
    ELSE IF sel = Cancelled THEN [handled |-> FALSE, cfg |-> c, raised |-> FALSE]
    ELSE [handled |-> TRUE, raised |-> FALSE, cfg |-> c]

reselect_server_type_writes_on_cancel(c, fetch, sel) ==
    IF ~c.readable THEN [handled |-> FALSE, cfg |-> c, raised |-> FALSE]
    ELSE IF c.provider # "hetzner" THEN [handled |-> FALSE, cfg |-> c, raised |-> FALSE]
    ELSE IF c.hetzner_token = "" THEN [handled |-> FALSE, cfg |-> c, raised |-> FALSE]
    ELSE IF fetch.err THEN [handled |-> FALSE, cfg |-> c, raised |-> FALSE]
    ELSE IF fetch.types = {} THEN [handled |-> FALSE, cfg |-> c, raised |-> FALSE]
    ELSE IF sel = Cancelled
    THEN [handled |-> FALSE, raised |-> FALSE,
          cfg |-> write_tfvars(c, [c EXCEPT !.hetzner_server_type =
                                               CHOOSE t \in fetch.types : TRUE])]
    ELSE [handled |-> TRUE, raised |-> FALSE,
          cfg |-> write_tfvars(c, [c EXCEPT !.hetzner_server_type = sel])]

reselect_server_type(c, fetch, sel) ==
    IF ~c.readable THEN [handled |-> FALSE, cfg |-> c, raised |-> FALSE]
    ELSE IF c.provider # "hetzner" THEN [handled |-> FALSE, cfg |-> c, raised |-> FALSE]
    ELSE IF c.hetzner_token = "" THEN [handled |-> FALSE, cfg |-> c, raised |-> FALSE]
    \* except hetzner.HetznerAPIError
    ELSE IF fetch.err THEN [handled |-> FALSE, cfg |-> c, raised |-> FALSE]
    ELSE IF fetch.types = {} THEN [handled |-> FALSE, cfg |-> c, raised |-> FALSE]
    ELSE IF sel = Cancelled THEN [handled |-> FALSE, cfg |-> c, raised |-> FALSE]
    ELSE [handled |-> TRUE, raised |-> FALSE,
          cfg |-> write_tfvars(c, [c EXCEPT !.hetzner_server_type = sel])]

\* handle_recovery_action: current_type, location = error_info, the arguments
\* reselect_server_type is called with
ReselectArgsSwapped(error) ==
    [current_type |-> detect_server_type_error(error).location,
     location |-> detect_server_type_error(error).server_type]
ReselectArgs(error) ==
    [current_type |-> detect_server_type_error(error).server_type,
     location |-> detect_server_type_error(error).location]

\* handle_recovery_action(action, name, error)
handle_recovery_action(action, c, error, fetch, sel) ==
    IF action = "reselect" /\ detect_server_type_error(error).found
    THEN reselect_server_type(c, fetch, sel)
    ELSE [handled |-> FALSE, cfg |-> c, raised |-> FALSE]

\* --------------------------------------------------------- stage executor
\* what a terraform apply leaves behind: on success the infrastructure exists
\* (state file, ip; the new server may not answer yet); a failed apply may have
\* written partial state
ApplyEffects(ok) ==
    IF ok THEN {[ip |-> Addr, state |-> TRUE, reach |-> r] : r \in BOOLEAN}
    ELSE {[ip |-> ip, state |-> st, reach |-> reachable] : st \in {hasState, TRUE}}
         \cup {[ip |-> Addr, state |-> TRUE, reach |-> r] : r \in BOOLEAN}

\* ssh.wait_for_ssh(ip): True at the first probe that succeeds, False when every
\* probe up to the timeout failed; reach is the network at the end of the wait
wait_for_ssh ==
    IF reachable THEN {[ok |-> TRUE, reach |-> TRUE, probed |-> TRUE]}
    ELSE {[ok |-> r, reach |-> r, probed |-> TRUE] : r \in BOOLEAN}

\* StageResult(success, error="")
StageResult(success, error) == [success |-> success, error |-> error]

\* terraform.apply's return: ApplyResult(True) when the exit code is 0, else
\* ApplyResult(False, full_output)
ApplyResultKeepsOutput(ok, full_output) == StageResult(ok, full_output)
ApplyResult(ok, full_output) ==
    IF ok THEN StageResult(TRUE, NoText) ELSE StageResult(FALSE, full_output)

\* run_stage(stage, name): the StageResults it can return, with the external state
\* the collaborator leaves, the collaborator operations called and whether an SSH
\* probe was made
run_stage_waits_without_ip(stage) ==
    IF stage = "init" THEN
        {[success |-> ok, error |-> NoText, ip |-> ip, state |-> hasState,
          reach |-> reachable, probed |-> FALSE, calls |-> {"terraform.init"}] :
              ok \in IF tools.tf THEN BOOLEAN ELSE {FALSE}}
    ELSE IF stage = "apply" THEN
        IF ~tools.tf THEN
            {[success |-> FALSE, error |-> TextNoTool, ip |-> ip, state |-> hasState,
              reach |-> reachable, probed |-> FALSE, calls |-> {"terraform.apply"}]}
        ELSE
        UNION {{[success |-> ApplyResult(x[1], x[2]).success,
                 error |-> ApplyResult(x[1], x[2]).error,
                 ip |-> e.ip, state |-> e.state, reach |-> e.reach, probed |-> FALSE,
                 calls |-> {"terraform.apply"}] : e \in ApplyEffects(x[1])} :
                   x \in BOOLEAN \X ApplyErrors}
    ELSE IF stage = "ssh" THEN
        IF TRUE THEN
            {[success |-> w.ok, error |-> NoText, ip |-> ip, state |-> hasState,
              reach |-> w.reach, probed |-> w.probed,
              calls |-> {"ssh.wait_for_ssh"}] : w \in wait_for_ssh}
        ELSE {[success |-> TRUE, error |-> NoText, ip |-> ip, state |-> hasState,
               reach |-> reachable, probed |-> FALSE, calls |-> {}]}
    ELSE IF stage = "ansible" THEN
        {[success |-> ok, error |-> NoText, ip |-> ip, state |-> hasState,
          reach |-> reachable, probed |-> FALSE, calls |-> {"ansible.run_playbook"}] :
              ok \in IF tools.ans THEN BOOLEAN ELSE {FALSE}}
    ELSE {[success |-> FALSE, error |-> NoText, ip |-> ip, state |-> hasState,
           reach |-> reachable, probed |-> FALSE, calls |-> {}]}

run_stage(stage) ==
    IF stage = "init" THEN
        {[success |-> ok, error |-> NoText, ip |-> ip, state |-> hasState,
          reach |-> reachable, probed |-> FALSE, calls |-> {"terraform.init"}] :
              ok \in IF tools.tf THEN BOOLEAN ELSE {FALSE}}
    ELSE IF stage = "apply" THEN
        IF ~tools.tf THEN
            {[success |-> FALSE, error |-> TextNoTool, ip |-> ip, state |-> hasState,
              reach |-> reachable, probed |-> FALSE, calls |-> {"terraform.apply"}]}
        ELSE
        UNION {{[success |-> ApplyResult(x[1], x[2]).success,
                 error |-> ApplyResult(x[1], x[2]).error,
                 ip |-> e.ip, state |-> e.state, reach |-> e.reach, probed |-> FALSE,
                 calls |-> {"terraform.apply"}] : e \in ApplyEffects(x[1])} :
                   x \in BOOLEAN \X ApplyErrors}
    ELSE IF stage = "ssh" THEN
        IF Truthy(ip) THEN
            {[success |-> w.ok, error |-> NoText, ip |-> ip, state |-> hasState,
              reach |-> w.reach, probed |-> w.probed,
              calls |-> {"ssh.wait_for_ssh"}] : w \in wait_for_ssh}
        ELSE {[success |-> TRUE, error |-> NoText, ip |-> ip, state |-> hasState,
               reach |-> reachable, probed |-> FALSE, calls |-> {}]}
    ELSE IF stage = "ansible" THEN
        {[success |-> ok, error |-> NoText, ip |-> ip, state |-> hasState,
          reach |-> reachable, probed |-> FALSE, calls |-> {"ansible.run_playbook"}] :
              ok \in IF tools.ans THEN BOOLEAN ELSE {FALSE}}
    ELSE {[success |-> FALSE, error |-> NoText, ip |-> ip, state |-> hasState,
           reach |-> reachable, probed |-> FALSE, calls |-> {}]}

\* do_deploy, the DNS pause: cfg and cfg.enable_letsencrypt and cfg.domain_name and ip
DnsGate(c, ipv) ==
    c.readable /\ c.enable_letsencrypt /\ c.domain_name # "" /\ Truthy(ipv)

\* the deployment asks for TLS via a domain
TlsViaDomain(c) == c.readable /\ c.enable_letsencrypt /\ c.domain_name # ""

\* ------------------------------------------------------------ do_deploy
Init ==
    /\ ip = NoIp /\ reachable = FALSE /\ hasState = FALSE
    /\ cfg = UnreadableCfg /\ exists = FALSE
    /\ tools \in ToolSets /\ checked = FALSE /\ status = -1
    /\ pc = "idle" /\ stages = <<>> /\ stage_idx = 0 /\ last_error = NoText
    /\ exitCode = -1 /\ menu = <<>>
    /\ run = 0 /\ retries = 0 /\ prev = NoEv /\ snap = NoSnap /\ prevRes = NoRes
    /\ resume = NoResume
    /\ outcome = "none" /\ probeOk = FALSE /\ succeeded = {}
    /\ summaryPrinted = FALSE /\ validations = 0 /\ aborted = NoAbort
    /\ flow = NoFlow
    /\ result = NoResult /\ calls = {} /\ dispatched = {} /\ error_info = NoMatch
    /\ wait = NoWait
    /\ dns_confirmed = FALSE /\ reply = ""
    /\ store = NoFile /\ credcall = NoCall /\ kept = NoKept

\* open_editor(tfvars_path): whatever the operator leaves in the file (nothing
\* changes when the editor cannot be started)
EditResults == Cfgs

\* ------------------------------------------------------------ the commands
\* no command is running
AtPrompt == pc \in {"idle", "returned", "exited"}

\* a command up to its call of do_deploy (proceeds) or its exit with a status
CommandStep(cmd, proceeds, passed, code) ==
    /\ pc' = IF proceeds THEN "do_deploy" ELSE "exited"
    /\ status' = IF proceeds THEN -1 ELSE code
    /\ checked' = passed
    /\ prev' = Ev("command", "", 0, proceeds, cmd, cfg' # cfg)
    /\ exitCode' = -1 /\ outcome' = "none" /\ summaryPrinted' = FALSE
    /\ validations' = 0 /\ retries' = 0 /\ probeOk' = FALSE /\ succeeded' = {}
    /\ menu' = <<>> /\ flow' = NoFlow /\ last_error' = NoText
    /\ aborted' = IF cfg' # cfg THEN NoAbort ELSE aborted
    /\ result' = NoResult /\ calls' = {} /\ dispatched' = {} /\ error_info' = NoMatch
    /\ dns_confirmed' = IF exists' # exists THEN FALSE ELSE dns_confirmed
    /\ reply' = ""
    /\ UNCHANGED <<ip, reachable, hasState, tools, stages, stage_idx, run,
                   snap, prevRes, resume, wait, credvars>>

\* roughneck new: prerequisites, the prompted configuration, "Proceed with
\* deployment?", write_tfvars, do_deploy
New ==
    /\ AtPrompt /\ run < MaxRuns
    /\ IF ~check_prerequisites(tools)
       THEN /\ UNCHANGED <<cfg, exists>>
            /\ CommandStep("new", FALSE, FALSE, 1)
       ELSE IF exists
       THEN /\ UNCHANGED <<cfg, exists>>
            /\ CommandStep("new", FALSE, TRUE, 1)
       ELSE \E c \in ReadableCfgs, answer \in ConfirmAnswers :
               IF confirm(answer, TRUE)
               THEN /\ cfg' = write_tfvars(cfg, c)
                    /\ exists' = TRUE
                    /\ CommandStep("new", TRUE, TRUE, -1)
               ELSE /\ UNCHANGED <<cfg, exists>>
                    /\ CommandStep("new", FALSE, TRUE, 0)

\* roughneck deploy: prerequisites, the deployment must exist, do_deploy
Deploy ==
    /\ AtPrompt /\ run < MaxRuns
    /\ UNCHANGED <<cfg, exists>>
    /\ IF ~check_prerequisites(tools) THEN CommandStep("deploy", FALSE, FALSE, 1)
       ELSE IF ~exists THEN CommandStep("deploy", FALSE, TRUE, 1)
       ELSE CommandStep("deploy", TRUE, TRUE, -1)

\* roughneck edit: the deployment must exist, the editor, "Deploy now?", do_deploy
Edit ==
    /\ AtPrompt /\ run < MaxRuns
    /\ UNCHANGED exists
    /\ IF ~exists
       THEN /\ UNCHANGED cfg
            /\ CommandStep("edit", FALSE, FALSE, 1)
       ELSE \E proceeds \in {sv /\ confirm(a, FALSE) : sv \in BOOLEAN, a \in ConfirmAnswers} :
               /\ cfg' \in EditResults
               /\ CommandStep("edit", proceeds, FALSE, 0)

\* tools are installed or removed between two commands
ToolsChange ==
    /\ AtPrompt
    /\ tools' \in ToolSets \ {tools}
    /\ UNCHANGED <<env, exists, checked, status, locals, hist, error_info, credvars>>

\* do_deploy is entered: the stage list is resolved, stage_idx = 0, last_error = ""
DoDeployStart ==
    /\ pc = "do_deploy"
    /\ stages' = ResolveStages(ip, reachable, hasState)
    /\ stage_idx' = 0
    /\ last_error' = NoText
    /\ exitCode' = -1
    /\ menu' = <<>>
    /\ pc' = "loop"
    /\ run' = run + 1
    /\ retries' = 0
    /\ prev' = Ev("resolve", "", 0, TRUE, "", FALSE)
    /\ snap' = Snapshot
    /\ prevRes' = IF run = 0 THEN NoRes
                  ELSE [valid |-> TRUE, snap |-> snap, stages |-> stages]
    /\ outcome' = "running"
    /\ probeOk' = (Truthy(ip) /\ reachable)
    /\ succeeded' = {}
    /\ summaryPrinted' = FALSE
    /\ validations' = 0
    /\ resume' = IF aborted.valid /\ aborted.env = env
                 THEN [valid |-> TRUE, remaining |-> aborted.remaining,
                       stage |-> aborted.stage]
                 ELSE NoResume
    /\ aborted' = NoAbort
    /\ flow' = NoFlow
    /\ result' = NoResult /\ calls' = {} /\ dispatched' = {} /\ error_info' = NoMatch
    /\ reply' = ""
    /\ UNCHANGED <<ip, reachable, hasState, cfg, cmdvars, wait, credvars, dns_confirmed>>

\* where a successful stage leaves the loop: the DNS gate after apply, else on
AfterSuccess(stage, c, ipv) ==
    IF stage = "apply" /\ DnsGate(c, ipv) THEN "dns" ELSE "loop"

\* where a failed stage leaves the loop: at recovery_menu, whatever the stage
AfterFailureInitFatal(stage) == IF stage = "init" THEN "returned" ELSE "menu"
AfterFailureAutoRetry(stage) == IF stage = "ssh" THEN "loop" ELSE "menu"
AfterFailureRetriesInit(stage) == IF stage = "init" THEN "loop" ELSE "menu"
AfterFailure(stage) == "menu"

\* the list the loop walks is the one resolved at entry: nothing in the loop
\* assigns stages
StageListReResolved(resolved) == ResolveStages(ip, reachable, hasState)
StageList(resolved) == resolved

\* while stage_idx < len(stages)
LoopRunsOffByOne(idx, n) == idx < n - 1
LoopRuns(idx, n) == idx < n

\* one pass of the while loop up to the operator's next input: run_stage, then the
\* success branch (up to the DNS prompt) or the failure branch (up to the menu)
RunStage ==
    /\ pc = "loop"
    /\ LoopRuns(stage_idx, Len(stages))
    /\ LET stage == stages[stage_idx + 1] IN
       \E out \in run_stage(stage) :
          /\ ip' = out.ip /\ hasState' = out.state /\ reachable' = out.reach
          /\ IF out.success
             THEN /\ pc' = AfterSuccess(stage, cfg, out.ip)
                  /\ IF pc' = "dns"
                     THEN UNCHANGED <<stage_idx, last_error>>
                     ELSE stage_idx' = stage_idx + 1 /\ last_error' = NoText
                  /\ menu' = <<>>
             ELSE /\ pc' = AfterFailure(stage)
                  /\ last_error' = out.error
                  /\ menu' = RecoveryChoices(stage, out.error)
                  /\ UNCHANGED stage_idx
          /\ prev' = Ev("dispatch", stage, stage_idx, out.success,
                        IF prev.kind = "choice" THEN prev.action ELSE "", FALSE)
          /\ probeOk' = (probeOk \/ (out.probed /\ out.success))
          /\ succeeded' = IF out.success THEN succeeded \cup {stage} ELSE succeeded
          /\ result' = StageResult(out.success, out.error)
          /\ calls' = out.calls
          /\ dispatched' = dispatched \cup {stage}
          /\ error_info' = IF out.success THEN NoMatch ELSE ErrorInfo(stage, out.error)
    /\ stages' = StageList(stages)
    /\ flow' = NoFlow
    /\ reply' = ""
    /\ UNCHANGED <<cmdvars, credvars, dns_confirmed>>
    /\ UNCHANGED <<cfg, exitCode, run, retries, snap, prevRes, resume, outcome,
                   summaryPrinted, validations, aborted, wait>>

\* the DNS pause: prompts.confirm("DNS configured and propagated?")
DnsConfirm ==
    /\ pc = "dns"
    /\ \E answer \in ConfirmAnswers :
          /\ IF confirm(answer, TRUE)
             THEN /\ stage_idx' = stage_idx + 1
                  /\ last_error' = NoText
                  /\ pc' = "loop"
                  /\ UNCHANGED <<exitCode, outcome>>
             ELSE /\ exitCode' = 1
                  /\ pc' = "returned"
                  /\ outcome' = "paused"
                  /\ UNCHANGED <<stage_idx, last_error>>
          /\ prev' = Ev("dns", "apply", stage_idx, confirm(answer, TRUE), answer, FALSE)
          /\ reply' = answer
          /\ dns_confirmed' = (dns_confirmed \/ confirm(answer, TRUE))
    /\ UNCHANGED <<aborted, menu, flow, cmdvars, credvars, result, calls, dispatched, error_info,
                   wait>>
    /\ UNCHANGED <<ip, reachable, hasState, cfg, stages, run, retries, snap, prevRes, resume,
                   probeOk, succeeded, summaryPrinted, validations>>

\* what the loop does with the operator's choice: the next index and whether the
\* loop goes on
NextIndexRetryAdvances(action, idx) ==
    IF action \in {"skip", "retry"} THEN idx + 1 ELSE idx
NextIndexSkipStays(action, idx) == idx
NextIndexReselectAdvances(action, idx) ==
    IF action \in {"skip", "reselect"} THEN idx + 1 ELSE idx
NextIndexRetryRestarts(action, idx) ==
    IF action = "skip" THEN idx + 1 ELSE IF action = "retry" THEN 0 ELSE idx
NextIndex(action, idx) == IF action = "skip" THEN idx + 1 ELSE idx
ContinuesAfterAbort(action) == TRUE
Continues(action) == action \in {"retry", "reselect", "edit", "skip"}

\* after handle_recovery_action: "then retry regardless of result"
AfterReselectHonoursResult(handled) == IF handled THEN "loop" ELSE "menu"
AfterReselect(handled) == "loop"

\* open_editor(filepath): whether the editor ran and exited with 0, and what the
\* file holds afterwards
open_editor == [ok : BOOLEAN, cfg : EditResults]

\* after open_editor in the "edit" branch: its result is not looked at
AfterEditHonoursResult(opened) == IF opened THEN "loop" ELSE "menu"
AfterEdit(opened) == "loop"

\* the failure branch from the menu on: recovery_menu's answer and its handling
Recover ==
    /\ pc = "menu"
    /\ LET stage == stages[stage_idx + 1] IN
       \E answer \in MenuAnswers(menu) :
          LET action == SelectOrAbort(answer) IN
          \E ed \in IF action = "edit" THEN open_editor ELSE {[ok |-> FALSE, cfg |-> cfg]} :
          /\ (action \in {"retry", "reselect", "edit"}) => retries < MaxRetries
          /\ retries' = IF action \in {"retry", "reselect", "edit"}
                        THEN retries + 1 ELSE retries
          /\ IF action = "reselect"
             THEN \E fetch \in FetchResults, sel \in ServerTypes \cup {Cancelled} :
                     /\ sel \in fetch.types \cup {Cancelled}
                     /\ LET res == handle_recovery_action(action, cfg, last_error,
                                                          fetch, sel)
                        IN /\ cfg' = res.cfg
                           /\ flow' = [ran |-> TRUE, handled |-> res.handled,
                                       raised |-> res.raised, before |-> cfg,
                                       fetch |-> fetch, sel |-> sel,
                                       error |-> last_error,
                                       current_type |->
                                           ReselectArgs(last_error).current_type,
                                       location |-> ReselectArgs(last_error).location]
             ELSE /\ flow' = NoFlow
                  /\ cfg' = ed.cfg
          /\ stage_idx' = NextIndex(action, stage_idx)
          /\ IF flow'.raised
             THEN \* an exception leaves do_deploy
                  /\ pc' = "crashed"
                  /\ UNCHANGED <<exitCode, outcome, aborted>>
             ELSE IF Continues(action)
             THEN /\ pc' = IF action = "reselect" THEN AfterReselect(flow'.handled)
                           ELSE IF action = "edit" THEN AfterEdit(ed.ok)
                           ELSE "loop"
                  /\ UNCHANGED <<exitCode, outcome, aborted>>
             ELSE /\ pc' = "returned"
                  /\ exitCode' = 1
                  /\ outcome' = "paused"
                  /\ aborted' = [valid |-> TRUE,
                                 remaining |-> SubSeq(stages, stage_idx + 1, Len(stages)),
                                 stage |-> stage, env |-> env]
          /\ prev' = Ev("choice", stage, stage_idx, ed.ok, action, cfg' # cfg)
          /\ reply' = answer
    /\ menu' = <<>>
    /\ error_info' = NoMatch
    /\ stages' = StageList(stages)
    /\ UNCHANGED <<cmdvars, credvars, dns_confirmed>>
    /\ UNCHANGED <<ip, reachable, hasState, last_error, run, snap, prevRes, resume,
                   probeOk, succeeded, summaryPrinted, validations, result, calls,
                   dispatched, wait>>

\* "# Done": the loop is over, the connection summary is printed
Summary ==
    /\ pc = "loop"
    /\ ~LoopRuns(stage_idx, Len(stages))
    /\ pc' = "validate"
    /\ summaryPrinted' = TRUE
    /\ outcome' = "completed"
    /\ prev' = Ev("summary", "", stage_idx, TRUE, "", FALSE)
    /\ UNCHANGED <<ip, reachable, hasState, cfg, stages, stage_idx, last_error, exitCode,
                   menu, run, retries, snap, prevRes, resume, probeOk, succeeded,
                   validations, aborted, flow, cmdvars, result, calls, dispatched,
                   error_info, wait, credvars, dns_confirmed, reply>>

\* "# Run validation": ansible.run_validate(name) decides the exit code
ValidateExitIgnored(ok) == 0
ValidateExit(ok) == IF ok THEN 0 ELSE 1

\* ansible.run_validate(name): False without ansible-playbook
run_validate == IF tools.ans THEN BOOLEAN ELSE {FALSE}

Validate ==
    /\ pc = "validate"
    /\ \E ok \in run_validate :
          /\ exitCode' = ValidateExit(ok)
          /\ prev' = Ev("validate", "", stage_idx, ok, "", FALSE)
    /\ validations' = validations + 1
    /\ pc' = "returned"
    /\ UNCHANGED <<ip, reachable, hasState, cfg, stages, stage_idx, last_error, aborted,
                   menu, run, retries, snap, prevRes, resume, outcome, probeOk, succeeded,
                   summaryPrinted, flow, cmdvars, result, calls, dispatched, error_info,
                   wait, credvars, dns_confirmed, reply>>

\* the network between the operator and the server changes
NetworkChange ==
    /\ Truthy(ip)
    /\ reachable' = ~reachable
    /\ UNCHANGED <<ip, hasState, cfg, pc, stages, stage_idx, last_error, exitCode,
                   menu, run, retries, prev, snap, prevRes, resume, outcome, probeOk, succeeded,
                   summaryPrinted, validations, aborted, flow, cmdvars, result, calls,
                   dispatched, error_info, wait, credvars, dns_confirmed, reply>>

Next ==
    \/ New
    \/ Deploy
    \/ Edit
    \/ ToolsChange
    \/ DoDeployStart
    \/ RunStage
    \/ DnsConfirm
    \/ Recover
    \/ Summary
    \/ Validate
    \/ NetworkChange

Spec == Init /\ [][Next]_vars

\* ------------------------------------------- recovery_menu on its own
\* recovery_menu(stage, name, error) called with any stage and any error text made
\* of the pieces the classifier's pattern looks for
MenuTokens ==
    {Lit("Server Type"), Lit("Resource Type"), Lit("is unavailable in"),
     Quo("cpx31"), Quo("hel1"), Quo("")}
MenuTexts ==
    {NoText} \cup UNION {[1..k -> MenuTokens] : k \in 1..MaxTextLen} \cup ApplyErrors

InitMenu ==
    /\ ip = NoIp /\ reachable = FALSE /\ hasState = FALSE
    /\ cfg = UnreadableCfg /\ exists = FALSE
    /\ tools = AllTools /\ checked = FALSE /\ status = -1
    /\ pc = "menu_call"
    /\ \E s \in Stages : stages = <<s>>
    /\ stage_idx = 0
    /\ last_error \in MenuTexts
    /\ exitCode = -1 /\ menu = <<>>
    /\ run = 0 /\ retries = 0 /\ prev = NoEv /\ snap = NoSnap /\ prevRes = NoRes
    /\ resume = NoResume
    /\ outcome = "none" /\ probeOk = FALSE /\ succeeded = {}
    /\ summaryPrinted = FALSE /\ validations = 0 /\ aborted = NoAbort
    /\ flow = NoFlow
    /\ result = NoResult /\ calls = {} /\ dispatched = {} /\ error_info = NoMatch
    /\ wait = NoWait
    /\ dns_confirmed = FALSE /\ reply = ""
    /\ store = NoFile /\ credcall = NoCall /\ kept = NoKept

\* recovery_menu builds its list of choices and shows it
ShowMenu ==
    /\ pc = "menu_call"
    /\ menu' = RecoveryChoices(stages[1], last_error)
    /\ error_info' = ErrorInfo(stages[1], last_error)
    /\ pc' = "menu"
    /\ UNCHANGED <<env, stages, stage_idx, last_error, exitCode, hist, cmdvars, credvars>>

\* recovery_menu returns the operator's choice, "abort" for a cancelled prompt
AnswerMenu ==
    /\ pc = "menu"
    /\ \E answer \in MenuAnswers(menu) :
          /\ prev' = Ev("choice", stages[1], 0, FALSE, SelectOrAbort(answer), FALSE)
          /\ reply' = answer
    /\ pc' = "chosen"
    /\ UNCHANGED <<env, stages, stage_idx, last_error, exitCode, menu, run, retries, snap,
                   prevRes, resume, outcome, probeOk, succeeded, summaryPrinted,
                   validations, aborted, flow, cmdvars, result, calls, dispatched,
                   error_info, wait, credvars, dns_confirmed>>

NextMenu ==
    \/ ShowMenu
    \/ AnswerMenu

SpecMenu == InitMenu /\ [][NextMenu]_vars

\* ------------------------------------------- ssh.wait_for_ssh step by step
\* wait_for_ssh(host, port=22, timeout=150), time.sleep(5) and
\* is_reachable(host, port, timeout=5), in seconds
SshTimeout == 150
PollSleep == 5
ProbeTimeout == 5

\* a deployment whose server exists: do_deploy is in run_stage("ssh")
WaitCfg ==
    [readable |-> TRUE, provider |-> "hetzner", enable_letsencrypt |-> FALSE,
     domain_name |-> "", hetzner_token |-> "tok", hetzner_server_type |-> "cpx31"]

InitWait ==
    /\ ip = Addr /\ reachable \in BOOLEAN /\ hasState = TRUE
    /\ cfg = WaitCfg /\ exists = TRUE
    /\ tools = AllTools /\ checked = TRUE /\ status = -1
    /\ pc = "run_stage"
    /\ stages = <<"ssh", "ansible">> /\ stage_idx = 0 /\ last_error = NoText
    /\ exitCode = -1 /\ menu = <<>>
    /\ run = 1 /\ retries = 0 /\ prev = Ev("resolve", "", 0, TRUE, "", FALSE)
    /\ snap = [ip |-> Addr, reach |-> FALSE, state |-> TRUE] /\ prevRes = NoRes
    /\ resume = NoResume
    /\ outcome = "running" /\ probeOk = FALSE /\ succeeded = {}
    /\ summaryPrinted = FALSE /\ validations = 0 /\ aborted = NoAbort
    /\ flow = NoFlow
    /\ result = NoResult /\ calls = {} /\ dispatched = {} /\ error_info = NoMatch
    /\ wait = NoWait
    /\ dns_confirmed = FALSE /\ reply = ""
    /\ store = NoFile /\ credcall = NoCall /\ kept = NoKept

waitframe ==
    <<ip, hasState, cfg, pc, stages, stage_idx, last_error, exitCode, menu, run, retries,
      prev, snap, prevRes, resume, outcome, probeOk, succeeded, summaryPrinted,
      validations, aborted, flow, result, error_info, cmdvars, credvars,
      dns_confirmed, reply>>

\* run_stage("ssh") with a known ip calls wait_for_ssh: start = time.time()
WaitStart ==
    /\ pc = "run_stage" /\ wait.pc = "off" /\ Truthy(ip)
    /\ wait' = [NoWait EXCEPT !.pc = "test"]
    /\ calls' = {"ssh.wait_for_ssh"}
    /\ dispatched' = dispatched \cup {"ssh"}
    /\ UNCHANGED <<reachable, waitframe>>

\* while time.time() - start < timeout
KeepWaitingOneRound(elapsed) == elapsed < PollSleep
KeepWaiting(elapsed) == elapsed < SshTimeout

WaitTest ==
    /\ wait.pc = "test"
    /\ wait' = IF KeepWaiting(wait.now) THEN [wait EXCEPT !.pc = "probe"]
               ELSE [wait EXCEPT !.pc = "returned", !.ok = FALSE]
    /\ UNCHANGED <<reachable, calls, dispatched, waitframe>>

\* is_reachable(host, port, timeout=5): an answer within the socket timeout
WaitProbe ==
    /\ wait.pc = "probe"
    /\ \E d \in 0..ProbeTimeout, r \in BOOLEAN :
          /\ reachable' = r
          /\ wait' = IF r
                     THEN [wait EXCEPT !.pc = "returned", !.ok = TRUE,
                                       !.now = @ + d, !.probes = @ + 1, !.hits = @ + 1]
                     ELSE [wait EXCEPT !.pc = "sleep", !.now = @ + d, !.probes = @ + 1]
    /\ UNCHANGED <<calls, dispatched, waitframe>>

\* time.sleep(5)
WaitSleep ==
    /\ wait.pc = "sleep"
    /\ wait' = [wait EXCEPT !.pc = "test", !.now = @ + PollSleep, !.slept = @ + PollSleep]
    /\ UNCHANGED <<reachable, calls, dispatched, waitframe>>

\* wait_for_ssh returns, run_stage wraps the answer in a StageResult and the loop
\* takes its success or its failure branch
WaitReturn ==
    /\ pc = "run_stage" /\ wait.pc = "returned"
    /\ wait' = [wait EXCEPT !.pc = "done"]
    /\ result' = StageResult(wait.ok, NoText)
    /\ IF wait.ok
       THEN /\ pc' = AfterSuccess("ssh", cfg, ip)
            /\ stage_idx' = stage_idx + 1
            /\ last_error' = NoText
            /\ menu' = <<>>
            /\ error_info' = NoMatch
       ELSE /\ pc' = AfterFailure("ssh")
            /\ last_error' = result'.error
            /\ menu' = RecoveryChoices("ssh", result'.error)
            /\ error_info' = ErrorInfo("ssh", result'.error)
            /\ UNCHANGED stage_idx
    /\ prev' = Ev("dispatch", "ssh", stage_idx, wait.ok, "", FALSE)
    /\ probeOk' = (probeOk \/ wait.ok)
    /\ succeeded' = IF wait.ok THEN succeeded \cup {"ssh"} ELSE succeeded
    /\ UNCHANGED <<ip, reachable, hasState, cfg, stages, exitCode, run, retries, snap,
                   prevRes, resume, outcome, summaryPrinted, validations, aborted, flow,
                   calls, dispatched, cmdvars, credvars, dns_confirmed, reply>>

NextWait ==
    \/ WaitStart
    \/ WaitTest
    \/ WaitProbe
    \/ WaitSleep
    \/ WaitReturn

\* the process keeps running: a probe answers within its timeout, a sleep ends
SpecWait == InitWait /\ [][NextWait]_vars /\ WF_vars(NextWait)

\* =================================================================== claims
\* the four-way rule of stage resolution, written out
RuleList(s) ==
    IF s.ip # NoIp /\ s.reach THEN <<"ansible">>
    ELSE IF s.ip # NoIp THEN <<"ssh", "ansible">>
    ELSE IF s.state THEN <<"apply", "ssh", "ansible">>
    ELSE <<"init", "apply", "ssh", "ansible">>

IsSuffixOfCanonical(l) ==
    \E k \in 1..Len(Canonical) : l = SubSeq(Canonical, k, Len(Canonical))

PrevIs(kind, action) == prev.kind = kind /\ prev.action = action

\* C1: the stage list resolved at the start of do_deploy is exactly [Configure] for a
\* known reachable ip, [ConnectWait, Configure] for a known unreachable ip,
\* [Apply, ConnectWait, Configure] for no ip with a persisted state file, and the
\* full list otherwise; a reachable ip gives [Configure] whatever the state flag.
C1_ResolvedByRule ==
    run > 0 =>
        /\ (snap.ip # NoIp /\ snap.reach) => stages = <<"ansible">>
        /\ (snap.ip # NoIp /\ ~snap.reach) => stages = <<"ssh", "ansible">>
        /\ (snap.ip = NoIp /\ snap.state) => stages = <<"apply", "ssh", "ansible">>
        /\ (snap.ip = NoIp /\ ~snap.state) =>
               stages = <<"init", "apply", "ssh", "ansible">>

C1_Witness ==
    /\ run > 0 /\ snap.ip # NoIp /\ snap.reach /\ snap.state
    /\ stages = <<"ansible">>

\* C2: in every state of a run the resolved stage list is a non-empty suffix of
\* [Init, Apply, ConnectWait, Configure], without duplicates, ending in Configure.
C2_SuffixOfCanonical ==
    run > 0 =>
        /\ Len(stages) >= 1
        /\ IsSuffixOfCanonical(stages)
        /\ \A i, j \in 1..Len(stages) : stages[i] = stages[j] => i = j
        /\ stages[Len(stages)] = "ansible"

C2_Witness ==
    /\ pc = "menu" /\ stages = <<"ssh", "ansible">> /\ stage_idx = 1

\* C3: resolving again on an unchanged snapshot gives the identical stage list, and
\* the resolution step changes no persisted or external state.
C3_ResolveIdempotent ==
    [][(pc = "do_deploy" /\ pc' = "loop") =>
           /\ <<ip, reachable, hasState, cfg>>' = <<ip, reachable, hasState, cfg>>
           /\ (run > 0 /\ snap' = snap) => stages' = stages]_vars

C3_Witness ==
    /\ run = 2 /\ prevRes.valid /\ prevRes.snap = snap /\ prevRes.stages = stages

\* C4: do_deploy returns only 0 or 1; 0 exactly when the index reached the end of
\* the list and validation succeeded; 1 exactly when paused at the DNS gate,
\* aborted from a recovery menu, or completed with a failed validation.
C4_ExitCodes ==
    /\ pc # "returned" => exitCode = -1
    /\ pc = "returned" =>
          /\ exitCode \in {0, 1}
          /\ exitCode = 0 <=>
                /\ outcome = "completed" /\ stage_idx = Len(stages)
                /\ prev.kind = "validate" /\ prev.ok
          /\ exitCode = 1 <=>
                \/ prev.kind = "dns" /\ ~prev.ok
                \/ PrevIs("choice", "abort")
                \/ prev.kind = "validate" /\ ~prev.ok /\ outcome = "completed"

C4_Witness == pc = "returned" /\ exitCode = 0 /\ Len(stages) = 4

\* C5: after Retry on a failed stage the next stage dispatched is that same stage at
\* the same index, and the configuration is not written in between.
C5_RetrySameStage ==
    /\ [](PrevIs("choice", "retry") =>
             /\ pc = "loop" /\ stage_idx = prev.idx /\ ~prev.wrote
             /\ stage_idx < Len(stages) /\ stages[stage_idx + 1] = prev.stage)
    /\ [][PrevIs("choice", "retry") =>
             /\ cfg' = cfg
             /\ prev' # prev =>
                   /\ prev'.kind = "dispatch"
                   /\ prev'.stage = prev.stage /\ prev'.idx = prev.idx]_vars

C5_Witness == prev.kind = "dispatch" /\ prev.action = "retry" /\ prev.stage = "apply"

\* C6: Skip advances the index by exactly one although the stage did not succeed;
\* Skip on a failing ConnectWait makes Configure the next stage dispatched while no
\* SSH probe has succeeded.
C6_SkipAdvances ==
    /\ [](PrevIs("choice", "skip") =>
             /\ pc = "loop" /\ stage_idx = prev.idx + 1
             /\ prev.stage \notin succeeded)
    /\ [][(PrevIs("choice", "skip") /\ prev.stage = "ssh" /\ prev' # prev) =>
             /\ prev'.kind = "dispatch" /\ prev'.stage = "ansible"
             /\ ~probeOk /\ ~probeOk']_vars

C6_Witness ==
    /\ prev.kind = "dispatch" /\ prev.action = "skip" /\ prev.stage = "ansible"
    /\ "ssh" \notin succeeded /\ ~probeOk /\ Truthy(ip)

\* C7: Abort in the recovery menu pauses the run: do_deploy returns 1 and, in that
\* invocation, no stage is dispatched, no summary printed and no validation run.
C7_AbortPauses ==
    /\ [](PrevIs("choice", "abort") =>
             /\ pc = "returned" /\ exitCode = 1 /\ outcome = "paused"
             /\ ~summaryPrinted /\ validations = 0)
    /\ [][(PrevIs("choice", "abort") /\ prev' # prev) =>
             (prev'.kind = "command" /\ pc' \in {"do_deploy", "exited"})]_vars

C7_Witness ==
    /\ PrevIs("choice", "abort") /\ prev.stage = "ansible" /\ pc = "returned"
    /\ exitCode = 1

\* C8 as stated: after an Abort, a fresh invocation with external state unchanged
\* since the abort resolves to the aborted run's remaining stage list.
C8_ResumeIsRemaining == resume.valid => stages = resume.remaining

\* C8 as amended: that invocation resolves from the snapshot alone, to the list of
\* the four-way rule; the list is the aborted run's remaining list exactly when the
\* aborted stage is the one the rule selects for the snapshot.
C8_ResumeByRule ==
    resume.valid =>
        /\ stages = RuleList(snap)
        /\ stages = resume.remaining <=> resume.stage = RuleList(snap)[1]

C8_Witness ==
    /\ resume.valid /\ resume.stage = "ssh" /\ stages = resume.remaining
    /\ pc = "loop"

\* C9: after a successful Apply of a deployment with TLS via a domain the run is at
\* the DNS gate before any later stage; it goes on only if the operator confirms
\* propagation and is otherwise paused with exit code 1.
C9_DnsGate ==
    /\ (prev.kind = "dispatch" /\ prev.stage = "apply" /\ prev.ok /\ TlsViaDomain(cfg))
          => pc = "dns"
    /\ prev.kind = "dns" =>
          IF prev.action = "yes"
          THEN pc = "loop" /\ stage_idx = prev.idx + 1
          ELSE pc = "returned" /\ exitCode = 1 /\ outcome = "paused"

\* C10: at the end of the stage list the run is completed: the summary is printed,
\* then validation runs exactly once; a failed validation returns 1 and the loop is
\* not entered again; a paused invocation never validates.
C10_CompletionValidates ==
    /\ [](/\ validations <= 1
          /\ summaryPrinted => (outcome = "completed" /\ stage_idx = Len(stages))
          /\ pc = "validate" => (summaryPrinted /\ validations = 0)
          /\ validations = 1 =>
                /\ pc = "returned" /\ prev.kind = "validate" /\ summaryPrinted
                /\ ~prev.ok => exitCode = 1
          /\ (pc = "returned" /\ outcome = "completed") => validations = 1
          /\ outcome = "paused" => (validations = 0 /\ ~summaryPrinted))
    /\ [][/\ (pc = "loop" /\ stage_idx = Len(stages) /\ prev' # prev) =>
                (prev'.kind = "summary" /\ pc' = "validate")
          /\ (pc = "validate" /\ prev' # prev) => prev'.kind = "validate"
          /\ (validations = 1 /\ prev' # prev) => prev'.kind = "command"]_vars

C10_Witness ==
    /\ pc = "returned" /\ outcome = "completed" /\ validations = 1
    /\ prev.kind = "validate" /\ ~prev.ok /\ exitCode = 1

\* C11: the recovery menu offers Reselect exactly when the failing stage is Apply and
\* the classifier matched the (non-empty) error text; never for Init, ConnectWait or
\* Configure, nor for an Apply failure whose text does not match or is empty.
C11_ReselectOffered ==
    pc \in {"menu", "chosen"} =>
        /\ ("reselect" \in Range(menu)) <=>
               /\ stages[stage_idx + 1] = "apply"
               /\ last_error # NoText
               /\ detect_server_type_error(last_error).found
        /\ stages[stage_idx + 1] # "apply" => "reselect" \notin Range(menu)
        /\ last_error = NoText => "reselect" \notin Range(menu)

C11_Witness ==
    /\ pc = "menu" /\ stages[stage_idx + 1] = "apply" /\ "reselect" \in Range(menu)
    /\ Len(last_error) = 4

\* C12: Skip is offered exactly for Apply and ConnectWait, Edit exactly for Apply and
\* Configure; the menus are [Retry, Abort] for Init, [Retry, Skip, Abort] for
\* ConnectWait, [Retry, Edit, Abort] for Configure and [Retry, Edit, Skip, Abort] for
\* Apply, with Reselect put first when it is offered.
C12_MenuByStage ==
    pc \in {"menu", "chosen"} =>
        LET stage == stages[stage_idx + 1]
            rest == IF menu # <<>> /\ menu[1] = "reselect" THEN Tail(menu) ELSE menu
        IN /\ ("skip" \in Range(menu)) <=> stage \in {"apply", "ssh"}
           /\ ("edit" \in Range(menu)) <=> stage \in {"apply", "ansible"}
           /\ stage = "init" => menu = <<"retry", "abort">>
           /\ stage = "ssh" => menu = <<"retry", "skip", "abort">>
           /\ stage = "ansible" => menu = <<"retry", "edit", "abort">>
           /\ stage = "apply" => rest = <<"retry", "edit", "skip", "abort">>

C12_Witness ==
    /\ pc = "chosen" /\ stages[stage_idx + 1] = "apply"
    /\ menu = <<"reselect", "retry", "edit", "skip", "abort">> /\ prev.action = "skip"

\* C13: every recovery menu is a list without duplicates that contains Retry and has
\* Abort as its last entry.
C13_MenuWellFormed ==
    pc \in {"menu", "chosen"} =>
        /\ \A i, j \in 1..Len(menu) : menu[i] = menu[j] => i = j
        /\ "retry" \in Range(menu)
        /\ Len(menu) >= 2 /\ menu[Len(menu)] = "abort"
        /\ \A i \in 1..(Len(menu) - 1) : menu[i] # "abort"

C13_Witness ==
    /\ pc = "menu" /\ stages[stage_idx + 1] = "ssh" /\ Len(menu) = 3
    /\ menu[3] = "abort"

\* the diagnostic texts of the scenario, as the claim has it and as the code's pattern
\* has it
ScenarioMatch == [found |-> TRUE, server_type |-> "cpx31", location |-> "hel1"]
TextServerTypeBare ==
    <<Lit("Server Type"), Quo("cpx31"), Lit("is unavailable in"), Quo("hel1")>>

\* C14 as stated: Apply failing with the text
\* Resource Type "cpx31" is unavailable in "hel1" is classified as the match
\* (cpx31, hel1) and the first option of the menu is Reselect.
C14_ResourceTypeText ==
    (pc = "menu" /\ stages[stage_idx + 1] = "apply" /\ last_error = TextResourceType) =>
        /\ detect_server_type_error(last_error) = ScenarioMatch
        /\ menu[1] = "reselect"

\* C14 as amended: Apply failing with the text
\* Server Type "cpx31" is unavailable in "hel1" is classified as the match
\* (cpx31, hel1) and the first option of the menu is Reselect; the same text with
\* Resource Type for Server Type is not matched and gets no Reselect.
C14_ServerTypeText ==
    (pc = "menu" /\ stages[stage_idx + 1] = "apply") =>
        /\ last_error = TextServerTypeBare =>
               /\ detect_server_type_error(last_error) = ScenarioMatch
               /\ menu[1] = "reselect"
        /\ last_error = TextResourceType =>
               /\ ~detect_server_type_error(last_error).found
               /\ "reselect" \notin Range(menu)

C14_Witness ==
    /\ pc = "menu" /\ stages[stage_idx + 1] = "apply"
    /\ last_error = TextServerTypeBare /\ menu[1] = "reselect"

\* the reselection flow the operator's last choice ran ended in one of the cases in
\* which nothing can be selected
FlowFailureCase ==
    \/ ~flow.before.readable
    \/ flow.before.provider # "hetzner"
    \/ flow.fetch.err
    \/ flow.fetch.types = {}
    \/ flow.sel = Cancelled

\* C15: the reselection flow never raises; it reports "not handled" and leaves the
\* persisted configuration unchanged when the provider has no reselection, the
\* configuration cannot be read, the fetch of types fails or returns none, or the
\* operator cancels the selection.
C15_FlowFailsSoft ==
    flow.ran =>
        /\ ~flow.raised /\ pc # "crashed"
        /\ FlowFailureCase => (~flow.handled /\ cfg = flow.before /\ ~prev.wrote)

C15_Witness ==
    /\ flow.ran /\ flow.fetch.err /\ flow.before.readable
    /\ flow.before.provider = "hetzner" /\ flow.before.hetzner_token # ""
    /\ ~flow.handled /\ pc = "loop"

C18_ReselectPersists ==
    /\ []((flow.ran /\ flow.handled) =>
             /\ flow.sel \in ServerTypes
             /\ cfg.hetzner_server_type = flow.sel
             /\ cfg = [flow.before EXCEPT !.hetzner_server_type = flow.sel]
             /\ pc = "loop")
    /\ [][(flow.ran /\ flow.handled /\ prev' # prev) =>
             /\ prev'.kind = "dispatch" /\ prev'.stage = "apply"
             /\ cfg'.hetzner_server_type = flow.sel]_vars

C18_Witness ==
    /\ flow.ran /\ flow.handled /\ flow.sel # flow.before.hetzner_server_type
    /\ cfg # flow.before /\ prev.wrote

\* C19: no stage is dispatched unless the prerequisite check of the running command
\* has passed, so that with a tool missing no stage runs, on each of the paths into
\* do_deploy (new, deploy, edit followed by "Deploy now?").
C19_PrerequisiteGate ==
    prev.kind = "dispatch" => (checked /\ check_prerequisites(tools))

\* C20: after every stage failure the run is at the recovery menu for that same
\* stage, and an invocation in which a stage failed ends only through the operator's
\* Abort.
C20_FailureToMenu ==
    /\ []((prev.kind = "dispatch" /\ ~prev.ok) =>
             /\ pc = "menu" /\ menu = RecoveryChoices(prev.stage, last_error)
             /\ stage_idx = prev.idx /\ stages[stage_idx + 1] = prev.stage
             /\ exitCode = -1)
    /\ [][(pc = "menu" /\ pc' # "menu") =>
             /\ prev'.kind = "choice"
             /\ pc' \in {"loop", "returned"}
             /\ pc' = "returned" <=> prev'.action = "abort"]_vars

C20_Witness ==
    /\ prev.kind = "dispatch" /\ ~prev.ok /\ prev.stage = "init" /\ pc = "menu"
    /\ tools.tf

\* a step of the running invocation, and a step that dispatches a stage
InvocationStep == run' = run /\ prev'.kind # "command"
DispatchStep == InvocationStep /\ prev'.kind = "dispatch" /\ prev' # prev
PositionOf(stage) == CHOOSE i \in 1..Len(stages) : stages[i] = stage

\* C21: stages run strictly in list order: within one invocation the stage index
\* stays between 0 and the length of the list, never decreases, moves only by +1
\* and only on a success (at once, or through the confirmed DNS pause) or on Skip,
\* and no stage is dispatched after a stage that stands later in the list
C21_Sequential ==
    /\ [](run > 0 => stage_idx \in 0..Len(stages))
    /\ [][InvocationStep =>
             /\ stage_idx' \in {stage_idx, stage_idx + 1}
             /\ stage_idx' = stage_idx + 1 =>
                   \/ prev'.kind \in {"dispatch", "dns"} /\ prev'.ok
                   \/ prev'.kind = "choice" /\ prev'.action = "skip"
             /\ DispatchStep =>
                   /\ prev'.idx = stage_idx
                   /\ prev'.stage = stages[stage_idx + 1]
                   /\ \A s \in dispatched : PositionOf(s) <= stage_idx + 1]_vars
C21_Witness ==
    /\ prev.kind = "dispatch" /\ prev.stage = "ssh" /\ prev.ok /\ prev.idx = 2
    /\ stage_idx = 3 /\ dispatched = {"init", "apply", "ssh"}
    /\ "apply" \notin succeeded

\* C22: a stage already dispatched in this invocation is dispatched again only
\* right after the operator chose Retry, Reselect or Edit at that stage's recovery
\* menu: never without that choice, and never once the stage has succeeded
C22_OperatorInitiated ==
    [][(DispatchStep /\ prev'.stage \in dispatched) =>
          /\ prev.kind = "choice"
          /\ prev.action \in {"retry", "reselect", "edit"}
          /\ prev.stage = prev'.stage
          /\ prev'.action = prev.action
          /\ prev'.stage \notin succeeded]_vars
C22_Witness ==
    /\ prev.kind = "dispatch" /\ prev.action = "retry" /\ prev.stage = "ssh"
    /\ ~prev.ok /\ dispatched = {"ssh"} /\ succeeded = {}

\* C23: Edit is chosen only for a failing Apply or Configure; the configuration
\* file is then opened in the editor and, whether or not the editor could be
\* started or exited with success, the loop goes on at the same index and the next
\* thing the orchestrator does is dispatch that same stage again
C23_EditReruns ==
    /\ [](PrevIs("choice", "edit") =>
             /\ prev.stage \in {"apply", "ansible"}
             /\ pc = "loop"
             /\ stage_idx = prev.idx
             /\ LoopRuns(stage_idx, Len(stages))
             /\ stages[stage_idx + 1] = prev.stage)
    /\ [][(PrevIs("choice", "edit") /\ prev' # prev) =>
             /\ prev'.kind = "dispatch"
             /\ prev'.stage = prev.stage
             /\ prev'.idx = prev.idx
             /\ prev'.action = "edit"]_vars
C23_Witness ==
    /\ PrevIs("choice", "edit") /\ prev.stage = "ansible"
    /\ ~prev.ok /\ ~prev.wrote /\ pc = "loop"

\* the text names, from token i on, a server type that is unavailable and the
\* location it was asked for in
NamesUnavailableAt(error, i) ==
    /\ i + 3 <= Len(error)
    /\ error[i] = Lit("Server Type") /\ error[i + 2] = Lit("is unavailable in")
    /\ error[i + 1].q /\ error[i + 1].s # ""
    /\ error[i + 3].q /\ error[i + 3].s # ""
FirstNaming(error) ==
    {i \in 1..Len(error) :
        NamesUnavailableAt(error, i) /\ \A j \in 1..(i - 1) : ~NamesUnavailableAt(error, j)}

\* C24: recovery_menu's classifier result is a match only for a failed Apply: for
\* Init, ConnectWait and Configure there is no match whatever the error text, and
\* for Apply there is a match exactly when the text names an unavailable server
\* type and its location, the match carrying those two fields
C24_MatchOnlyForApply ==
    pc \in {"menu", "chosen"} =>
        LET stage == stages[stage_idx + 1] IN
        /\ stage # "apply" => error_info = NoMatch
        /\ stage = "apply" => (error_info.found <=> FirstNaming(last_error) # {})
        /\ error_info.found =>
              \E i \in FirstNaming(last_error) :
                 /\ error_info.server_type = last_error[i + 1].s
                 /\ error_info.location = last_error[i + 3].s
        /\ ("reselect" \in Range(menu)) <=> error_info.found
C24_Witness ==
    /\ pc = "menu" /\ stages[stage_idx + 1] = "ansible"
    /\ FirstNaming(last_error) = {1} /\ error_info = NoMatch

\* the collaborator operation each stage belongs to
Collaborator(stage) ==
    CASE stage = "init" -> "terraform.init"
      [] stage = "apply" -> "terraform.apply"
      [] stage = "ssh" -> "ssh.wait_for_ssh"
      [] stage = "ansible" -> "ansible.run_playbook"

\* C25: run_stage calls no collaborator operation but the one of the stage it was
\* given (none at all only for ConnectWait without an ip), an unavailable tool
\* gives success = false like every other failure, a successful result has an
\* empty error text and only a failed Apply carries a text; the loop takes a
\* failed result to the recovery menu with that text
C25_ExecutorNormalises ==
    prev.kind = "dispatch" =>
        /\ calls \subseteq {Collaborator(prev.stage)}
        /\ calls = {} => (prev.stage = "ssh" /\ ~Truthy(ip))
        /\ result.success = prev.ok
        /\ result.success => result.error = NoText
        /\ result.error # NoText => (prev.stage = "apply" /\ ~result.success)
        /\ (prev.stage \in {"init", "apply"} /\ ~tools.tf) => ~result.success
        /\ (prev.stage = "ansible" /\ ~tools.ans) => ~result.success
        /\ ~result.success => (pc = "menu" /\ last_error = result.error)
C25_Witness ==
    /\ prev.kind = "dispatch" /\ prev.stage = "apply" /\ ~tools.tf
    /\ result = StageResult(FALSE, TextNoTool) /\ calls = {"terraform.apply"}

\* C26: ConnectWait dispatched while the deployment has no known ip succeeds at
\* once: the result is success = true with no error text, wait_for_ssh is not
\* called, so no probe is made, and the loop moves on to the next stage
C26_NoIpNoWait ==
    (prev.kind = "dispatch" /\ prev.stage = "ssh" /\ ~Truthy(ip)) =>
        /\ prev.ok
        /\ result = StageResult(TRUE, NoText)
        /\ calls = {}
        /\ ~probeOk
        /\ pc = "loop" /\ stage_idx = prev.idx + 1
C26_Witness ==
    /\ prev.kind = "dispatch" /\ prev.stage = "ssh" /\ ip = NoIp
    /\ prev.ok /\ calls = {} /\ "apply" \in dispatched

\* C27: wait_for_ssh is a bounded polling loop: it returns True at the first probe
\* that succeeds, sleeps 5 seconds after every probe that fails, returns False
\* only when 150 seconds or more have passed since it began, makes at most
\* 150 / 5 probes and always returns; a False is an ordinary failure of
\* ConnectWait, taken to the recovery menu of that stage
C27_BoundedPolling ==
    /\ [](wait.pc # "off" =>
             /\ wait.hits <= 1
             /\ wait.hits = 1 <=> (wait.pc \in {"returned", "done"} /\ wait.ok)
             /\ wait.slept = PollSleep * (wait.probes - wait.hits
                                             - IF wait.pc = "sleep" THEN 1 ELSE 0)
             /\ (wait.pc \in {"returned", "done"} /\ ~wait.ok) => wait.now >= SshTimeout
             /\ wait.probes <= SshTimeout \div PollSleep
             /\ wait.now < SshTimeout + ProbeTimeout + PollSleep
             /\ (wait.pc = "done" /\ ~wait.ok) =>
                   /\ pc = "menu" /\ menu = <<"retry", "skip", "abort">>
                   /\ prev = Ev("dispatch", "ssh", 0, FALSE, "", FALSE)
                   /\ stage_idx = 0 /\ result = StageResult(FALSE, NoText)
             /\ (wait.pc = "done" /\ wait.ok) => (pc = "loop" /\ stage_idx = 1))
    /\ <>(wait.pc = "done")
C27_Witness ==
    /\ wait.pc = "done" /\ ~wait.ok /\ pc = "menu"
    /\ wait.probes = SshTimeout \div PollSleep /\ wait.now = SshTimeout

\* C28: the stage list is resolved once per invocation, when do_deploy is entered
\* and before anything is dispatched; it is then the same list until the
\* invocation ends, whatever an Edit, a reselection or a stage changes in the
\* configuration, the infrastructure or the network; the next invocation resolves
\* again from the state it finds
C28_ResolvedOnce ==
    /\ [][run' = run =>
             /\ stages' = stages /\ snap' = snap
             /\ prev' # prev => prev'.kind # "resolve"]_vars
    /\ [][run' # run =>
             /\ run' = run + 1
             /\ pc = "do_deploy" /\ prev.kind = "command"
             /\ prev'.kind = "resolve"
             /\ snap' = Snapshot
             /\ stages' = RuleList(Snapshot)
             /\ stage_idx' = 0 /\ dispatched' = {}]_vars
C28_Witness ==
    /\ run = 2 /\ prev.kind = "dispatch" /\ prev.action = "edit"
    /\ stages # RuleList(Snapshot) /\ stages # prevRes.stages

\* do_deploy is running
InDoDeploy == pc \in {"do_deploy", "loop", "menu", "dns", "validate"}

\* C29: while do_deploy runs, the orchestrator itself writes the persisted
\* configuration in one place only, the write of a reselection that succeeded,
\* which changes nothing but the server type to the one selected; apart from what
\* the operator does in the editor after Edit, no step changes it: not the
\* resolution, Retry, Skip, Abort, a reselection that is not handled, the DNS
\* pause, the summary or the validation
C29_WritesOnlyOnReselect ==
    [][(InDoDeploy /\ cfg' # cfg) =>
          /\ prev'.kind = "choice" /\ prev' # prev
          /\ \/ prev'.action = "edit"
             \/ /\ prev'.action = "reselect"
                /\ flow'.ran /\ flow'.handled
                /\ flow'.sel \in flow'.fetch.types
                /\ cfg' = [cfg EXCEPT !.hetzner_server_type = flow'.sel]]_vars
C29_Witness ==
    /\ PrevIs("choice", "reselect") /\ flow.handled /\ prev.wrote
    /\ flow.before.hetzner_server_type = "cpx31" /\ cfg.hetzner_server_type = "cx22"
    /\ cfg = [flow.before EXCEPT !.hetzner_server_type = "cx22"]

\* C30: Configure is never skipped: Skip is not a choice the operator can make for
\* it, and whenever do_deploy has reached the summary (so whenever it returns 0)
\* Configure, the last stage of the list, was dispatched in this invocation and
\* its latest run, the latest run_stage of the invocation, succeeded
C30_ConfigureNotSkipped ==
    /\ PrevIs("choice", "skip") => prev.stage # "ansible"
    /\ exitCode = 0 => outcome = "completed"
    /\ outcome = "completed" =>
          /\ stage_idx = Len(stages)
          /\ stages[Len(stages)] = "ansible"
          /\ "ansible" \in dispatched /\ "ansible" \in succeeded
          /\ result = StageResult(TRUE, NoText)
          /\ calls = {"ansible.run_playbook"}
C30_Witness ==
    /\ outcome = "completed" /\ exitCode = 0
    /\ dispatched = {"apply", "ssh", "ansible"} /\ succeeded = {"ansible"}

\* C31: for a deployment configured for TLS via a domain, Configure is dispatched
\* only if the DNS pause has let the deployment through, in this invocation or in
\* an earlier one
C31_ConfigureAfterDns ==
    (prev.kind = "dispatch" /\ prev.stage = "ansible" /\ TlsViaDomain(cfg)) => dns_confirmed

\* how far do_deploy is from returning: four units per stage still ahead, and
\* within a stage the dispatch, the menu and the DNS pause in that order
Measure ==
    CASE pc = "do_deploy" -> 4 * Len(Canonical) + 4
      [] pc = "loop" -> 4 * (Len(stages) - stage_idx) + 3
      [] pc = "menu" -> 4 * (Len(stages) - stage_idx) + 2
      [] pc = "dns" -> 4 * (Len(stages) - stage_idx) + 1
      [] pc = "validate" -> 1
      [] OTHER -> 0

\* C32: an invocation of do_deploy whose collaborator calls return ends paused or
\* completed unless the operator keeps choosing re-runs: every step of do_deploy
\* other than a Retry, Reselect or Edit chosen by the operator brings it strictly
\* nearer to its return, a step is always possible until then, and it returns
\* paused or completed with 0 or 1
C32_Terminates ==
    /\ [](/\ pc # "crashed"
          /\ InDoDeploy => Measure > 0
          /\ pc = "menu" => "abort" \in Range(menu)
          /\ (pc = "loop" /\ LoopRuns(stage_idx, Len(stages))) =>
                run_stage(stages[stage_idx + 1]) # {}
          /\ pc = "returned" =>
                (Measure = 0 /\ outcome \in {"paused", "completed"} /\ exitCode \in {0, 1}))
    /\ [][(InDoDeploy /\ prev' # prev) =>
             \/ Measure' < Measure
             \/ /\ prev'.kind = "choice"
                /\ prev'.action \in {"retry", "reselect", "edit"}
                /\ pc' = "loop" /\ stage_idx' = stage_idx /\ retries' = retries + 1]_vars
C32_Witness ==
    /\ pc = "returned" /\ outcome = "completed" /\ retries = MaxRetries
    /\ Len(stages) = 4 /\ succeeded = {"init", "ansible"}

\* C33: the DNS pause is passed only on the operator's explicit yes: after any
\* other outcome of the prompt, a cancelled prompt included, the index has not
\* moved and do_deploy has returned 1, paused
C33_ExplicitConfirmation ==
    prev.kind = "dns" =>
        /\ prev.ok <=> reply = "yes"
        /\ reply # "yes" =>
              /\ pc = "returned" /\ exitCode = 1 /\ outcome = "paused"
              /\ stage_idx = prev.idx

\* C34: a recovery menu the operator cancels without choosing counts as Abort:
\* do_deploy has returned 1, paused, at the failed stage's index, nothing was
\* written, no menu is up and the loop is left, so no stage is dispatched any more
C34_CancelIsAbort ==
    (prev.kind = "choice" /\ reply = Cancelled) =>
        /\ prev.action = "abort"
        /\ pc = "returned" /\ exitCode = 1 /\ outcome = "paused"
        /\ stage_idx = prev.idx /\ ~prev.wrote /\ ~flow.ran
        /\ menu = <<>> /\ prev.stage \notin succeeded
        /\ aborted.valid /\ aborted.stage = prev.stage
C34_Witness ==
    /\ prev.kind = "choice" /\ reply = Cancelled /\ prev.stage = "ansible"
    /\ pc = "returned" /\ exitCode = 1

\* C35: the recovery menu of a failing Init is exactly [Retry, Abort], the only
\* choices ever made for Init are those two, and in an invocation whose list
\* begins with Init, Apply has been dispatched only if Init succeeded in it
C35_InitNotSkipped ==
    /\ (pc = "menu" /\ stages[stage_idx + 1] = "init") =>
          (menu = <<"retry", "abort">> /\ error_info = NoMatch)
    /\ (prev.kind = "choice" /\ prev.stage = "init") =>
          (prev.action \in {"retry", "abort"} /\ ~prev.wrote)
    /\ (Len(stages) > 0 /\ stages[1] = "init" /\ "apply" \in dispatched) =>
          "init" \in succeeded
C35_Witness ==
    /\ prev.kind = "dispatch" /\ prev.stage = "apply" /\ stages[1] = "init"
    /\ retries = 1 /\ dispatched = {"init", "apply"} /\ "init" \in succeeded

\* ------------------------------------------- roughneck destroy step by step
\* the deployment the command is given, and another name the operator may type
DeployName == "dev"
OtherName == "prod"
\* what the operator enters at "Type '<name>' to confirm destruction:"
TypedAnswers == {DeployName, OtherName, "", Cancelled}

\* prompts.confirm_destroy(name): result == name if result else False
confirm_destroy_any_text(typed, name) == typed # Cancelled /\ typed # ""
confirm_destroy(typed, name) ==
    IF typed = Cancelled \/ typed = "" THEN FALSE ELSE typed = name

\* terraform.destroy(name): False without the terraform command, True when there
\* is no state file, False when terraform init fails, else whether terraform
\* destroy exited with 0; a destroy that fails may already have removed the server
terraform_destroy ==
    IF ~tools.tf THEN
        {[ok |-> FALSE, ip |-> ip, reach |-> reachable, state |-> hasState]}
    ELSE IF ~hasState THEN
        {[ok |-> TRUE, ip |-> ip, reach |-> reachable, state |-> hasState]}
    ELSE {[ok |-> FALSE, ip |-> ip, reach |-> reachable, state |-> hasState]}
         \cup {[ok |-> TRUE, ip |-> NoIp, reach |-> FALSE, state |-> hasState]}
         \cup {[ok |-> FALSE, ip |-> NoIp, reach |-> FALSE, state |-> hasState]}

\* the deployments the command can meet: none, or one in any state do_deploy
\* can have left it in
DestroyEnvs ==
    {<<NoIp, FALSE, FALSE>>, <<NoIp, FALSE, TRUE>>, <<Addr, FALSE, TRUE>>,
     <<Addr, TRUE, TRUE>>}
InitDestroy ==
    /\ exists \in BOOLEAN
    /\ IF exists
       THEN /\ cfg \in Cfgs
            /\ \E e \in DestroyEnvs : ip = e[1] /\ reachable = e[2] /\ hasState = e[3]
       ELSE cfg = UnreadableCfg /\ ip = NoIp /\ reachable = FALSE /\ hasState = FALSE
    /\ tools \in ToolSets /\ checked = FALSE /\ status = -1
    /\ pc = "idle" /\ stages = <<>> /\ stage_idx = 0 /\ last_error = NoText
    /\ exitCode = -1 /\ menu = <<>>
    /\ run = 0 /\ retries = 0 /\ prev = NoEv /\ snap = NoSnap /\ prevRes = NoRes
    /\ resume = NoResume
    /\ outcome = "none" /\ probeOk = FALSE /\ succeeded = {}
    /\ summaryPrinted = FALSE /\ validations = 0 /\ aborted = NoAbort
    /\ flow = NoFlow
    /\ result = NoResult /\ calls = {} /\ dispatched = {} /\ error_info = NoMatch
    /\ wait = NoWait
    /\ dns_confirmed = FALSE /\ reply = ""
    /\ store = NoFile /\ credcall = NoCall /\ kept = NoKept

\* what the destroy command never touches
destroyframe ==
    <<tools, stages, stage_idx, last_error, exitCode, menu, retries, prevRes, resume,
      outcome, probeOk, succeeded, summaryPrinted, validations, aborted, flow, result,
      calls, dispatched, error_info, wait, dns_confirmed, credvars>>

\* roughneck destroy [--force]: prerequisites, the deployment must exist, then
\* the confirmation unless --force was given
DestroyCmd ==
    /\ pc \in {"idle", "exited"} /\ run < MaxRuns
    /\ run' = run + 1
    /\ snap' = Snapshot
    /\ reply' = ""
    /\ \E force \in BOOLEAN :
          LET cmd == IF force THEN "destroy --force" ELSE "destroy" IN
          IF ~check_prerequisites(tools)
          THEN /\ pc' = "exited" /\ status' = 1 /\ checked' = FALSE
               /\ prev' = Ev("command", "", 0, FALSE, cmd, FALSE)
          ELSE IF ~exists
          THEN /\ pc' = "exited" /\ status' = 1 /\ checked' = TRUE
               /\ prev' = Ev("command", "", 0, FALSE, cmd, FALSE)
          ELSE /\ pc' = IF force THEN "destroying" ELSE "confirm_destroy"
               /\ status' = -1 /\ checked' = TRUE
               /\ prev' = Ev("command", "", 0, TRUE, cmd, FALSE)
    /\ UNCHANGED <<env, exists, destroyframe>>

\* prompts.confirm_destroy(name); "Name does not match. Aborted." and Exit(0)
ConfirmDestroy ==
    /\ pc = "confirm_destroy"
    /\ \E typed \in TypedAnswers :
          /\ reply' = typed
          /\ prev' = Ev("confirm_destroy", "", 0, confirm_destroy(typed, DeployName),
                        prev.action, FALSE)
          /\ IF confirm_destroy(typed, DeployName)
             THEN pc' = "destroying" /\ status' = -1
             ELSE pc' = "exited" /\ status' = 0
    /\ UNCHANGED <<env, exists, checked, run, snap, destroyframe>>

\* terraform.destroy(name); "Terraform destroy failed" and Exit(1)
TerraformDestroy ==
    /\ pc = "destroying"
    /\ \E out \in terraform_destroy :
          /\ ip' = out.ip /\ reachable' = out.reach /\ hasState' = out.state
          /\ prev' = Ev("terraform.destroy", "", 0, out.ok, prev.action, FALSE)
          /\ IF out.ok THEN pc' = "deleting" /\ status' = -1
             ELSE pc' = "exited" /\ status' = 1
    /\ UNCHANGED <<cfg, exists, checked, run, snap, reply, destroyframe>>

\* config.delete_deployment(name): the deployment's directory, with its
\* configuration and state, is removed; the command ends with status 0
DeleteDeployment ==
    /\ pc = "deleting"
    /\ exists' = FALSE /\ cfg' = UnreadableCfg
    /\ ip' = NoIp /\ reachable' = FALSE /\ hasState' = FALSE
    /\ prev' = Ev("delete_deployment", "", 0, TRUE, prev.action, FALSE)
    /\ pc' = "exited" /\ status' = 0
    /\ UNCHANGED <<checked, run, snap, reply, destroyframe>>

NextDestroy ==
    \/ DestroyCmd
    \/ ConfirmDestroy
    \/ TerraformDestroy
    \/ DeleteDeployment

SpecDestroy == InitDestroy /\ [][NextDestroy]_vars

\* the deployment's record is deleted in this step
RecordDeleted == exists /\ ~exists'
\* the command had the operator's word: the exact name was typed, or --force
Authorised == prev.action = "destroy --force" \/ reply = DeployName

\* C36 (as stated): the record is deleted only right after terraform.destroy
\* returned True and only with the name typed or --force; a mismatched
\* confirmation and a failed terraform.destroy leave the infrastructure state
\* (server and state file) and the record as they were
C36_DestroyUntouched ==
    [][/\ (exists' # exists \/ cfg' # cfg) =>
              (RecordDeleted /\ prev.kind = "terraform.destroy" /\ prev.ok /\ Authorised)
       /\ (pc = "confirm_destroy" /\ ~prev'.ok) =>
              (UNCHANGED <<ip, hasState, exists, cfg>> /\ pc' = "exited" /\ status' = 0)
       /\ (pc = "destroying" /\ ~prev'.ok) =>
              (UNCHANGED <<ip, hasState, exists, cfg>> /\ pc' = "exited" /\ status' = 1)
      ]_vars

\* C36 (amended): the record is deleted only right after terraform.destroy
\* returned True and only with the name typed or --force; a mismatched
\* confirmation leaves the infrastructure state and the record as they were; a
\* failed terraform.destroy leaves the record and the state file in place, and
\* the server is either as it was or already gone
C36_DestroyKeepsRecord ==
    [][/\ (exists' # exists \/ cfg' # cfg) =>
              (RecordDeleted /\ prev.kind = "terraform.destroy" /\ prev.ok /\ Authorised)
       /\ (pc = "confirm_destroy" /\ ~prev'.ok) =>
              (UNCHANGED <<ip, hasState, exists, cfg>> /\ pc' = "exited" /\ status' = 0)
       /\ (pc = "destroying" /\ ~prev'.ok) =>
              /\ UNCHANGED <<hasState, exists, cfg>> /\ ip' \in {ip, NoIp}
              /\ pc' = "exited" /\ status' = 1
      ]_vars
C36_Witness ==
    /\ prev.kind = "delete_deployment" /\ prev.action = "destroy"
    /\ reply = DeployName /\ ~exists /\ snap.ip = Addr /\ status = 0

\* --------------------------------------------- the credential store's calls
\* calls on the store that are followed
MaxCalls == 3
CredProviders == {"hetzner"}

\* Credential(name, provider, data)
Credential(name, provider, data) == [name |-> name, provider |-> provider, data |-> data]

\* load_credentials(): [] without a file, the list the file holds when it
\* decrypts and parses, [] when decrypt exits non-zero or the JSON is invalid
\* (the file still holds what it held); decrypt raising RuntimeError is not caught
LoadOutcomes(s) == IF s = NoFile THEN {"ok"} ELSE {"ok", "failed", "raised"}
load_credentials(s, o) == IF s = NoFile \/ o = "failed" THEN <<>> ELSE s

\* save_credentials(creds): the file holds creds, unless encrypt raises
SaveOutcomes == {"ok", "raised"}

\* [c for c in creds if c.name != name]
Without(creds, name) == SelectSeq(creds, LAMBDA c : c.name # name)

InitCreds ==
    /\ ip = NoIp /\ reachable = FALSE /\ hasState = FALSE
    /\ cfg = UnreadableCfg /\ exists = FALSE
    /\ tools = AllTools /\ checked = FALSE /\ status = -1
    /\ pc = "idle" /\ stages = <<>> /\ stage_idx = 0 /\ last_error = NoText
    /\ exitCode = -1 /\ menu = <<>>
    /\ run = 0 /\ retries = 0 /\ prev = NoEv /\ snap = NoSnap /\ prevRes = NoRes
    /\ resume = NoResume
    /\ outcome = "none" /\ probeOk = FALSE /\ succeeded = {}
    /\ summaryPrinted = FALSE /\ validations = 0 /\ aborted = NoAbort
    /\ flow = NoFlow
    /\ result = NoResult /\ calls = {} /\ dispatched = {} /\ error_info = NoMatch
    /\ wait = NoWait
    /\ dns_confirmed = FALSE /\ reply = ""
    /\ store = NoFile /\ credcall = NoCall /\ kept = NoKept

\* what the store's calls never touch
credframe ==
    <<env, cmdvars, locals, retries, prev, snap, prevRes, resume, outcome, probeOk,
      succeeded, summaryPrinted, validations, aborted, flow, result, calls, dispatched,
      error_info, wait, dns_confirmed, reply>>

\* add_credential(name, provider, data)
AddCredential ==
    /\ run < MaxCalls
    /\ run' = run + 1
    /\ \E name \in CredNames, provider \in CredProviders, data \in CredData,
          o \in LoadOutcomes(store), sv \in SaveOutcomes :
          LET creds == Without(load_credentials(store, o), name)
              raised == o = "raised" \/ sv = "raised"
          IN /\ store' = IF raised THEN store
                         ELSE Append(creds, Credential(name, provider, data))
             /\ credcall' = [op |-> "add", name |-> name, data |-> data,
                             ret |-> IF raised THEN "raised" ELSE "None", load |-> o]
             /\ kept' = IF raised THEN kept ELSE [kept EXCEPT ![name] = data]
    /\ UNCHANGED credframe

\* remove_credential(name)
RemoveCredential ==
    /\ run < MaxCalls
    /\ run' = run + 1
    /\ \E name \in CredNames, o \in LoadOutcomes(store), sv \in SaveOutcomes :
          LET creds == load_credentials(store, o)
              new_creds == Without(creds, name)
              absent == Len(new_creds) = Len(creds)
              raised == o = "raised" \/ (~absent /\ sv = "raised")
          IN /\ store' = IF raised \/ absent THEN store ELSE new_creds
             /\ credcall' = [op |-> "remove", name |-> name, data |-> NoData,
                             ret |-> IF raised THEN "raised"
                                     ELSE IF absent THEN "False" ELSE "True",
                             load |-> o]
             /\ kept' = IF raised \/ absent THEN kept ELSE [kept EXCEPT ![name] = NoData]
    /\ UNCHANGED credframe

NextCreds ==
    \/ AddCredential
    \/ RemoveCredential

SpecCreds == InitCreds /\ [][NextCreds]_vars

\* the credentials the file holds
Stored == IF store = NoFile THEN {} ELSE Range(store)
\* the store holds a credential of this name
Holds(s, name) == s # NoFile /\ \E i \in 1..Len(s) : s[i].name = name

\* C37: a credential that was added and not removed or re-added since is in
\* the store with the data it was added with, whatever loading did in the calls
\* that followed
C37_AddPreserves ==
    \A n \in CredNames :
        kept[n] # NoData => \E c \in Stored : c.name = n /\ c.data = kept[n]

\* the credentials of this name the file holds
Named(s, name) == IF s = NoFile THEN <<>> ELSE SelectSeq(s, LAMBDA c : c.name = name)

\* C38: the store holds at most one credential per name and an add that
\* returned left exactly its credential under its name; a remove_credential that
\* returned gave False with the store unchanged when the name was absent, and
\* True with exactly that credential removed when it was present
C38_OnePerName ==
    /\ [](\A n \in CredNames : Len(Named(store, n)) <= 1)
    /\ []((credcall.op = "add" /\ credcall.ret = "None") =>
              /\ Len(Named(store, credcall.name)) = 1
              /\ Named(store, credcall.name)[1].data = credcall.data)
    /\ [][(run' # run /\ credcall'.op = "remove" /\ credcall'.ret # "raised") =>
              IF Holds(store, credcall'.name)
              THEN credcall'.ret = "True" /\ store' = Without(store, credcall'.name)
              ELSE credcall'.ret = "False" /\ store' = store]_vars

\* C39: while a recovery menu is up, the remembered error is the error of the
\* failed attempt just made of the current stage, and the menu and its error_info
\* were built from it; the remembered error is empty once the loop goes on after
\* a success; and a Reselect runs the reselection flow on that same text, with
\* the type and the location of the text's first match
C39_ErrorOfLastAttempt ==
    /\ pc = "menu" =>
          /\ prev.kind = "dispatch" /\ ~prev.ok
          /\ prev.stage = stages[stage_idx + 1] /\ prev.idx = stage_idx
          /\ ~result.success /\ last_error = result.error
          /\ menu = RecoveryChoices(prev.stage, last_error)
          /\ error_info = ErrorInfo(prev.stage, last_error)
    /\ (prev.kind \in {"dispatch", "dns"} /\ prev.ok /\ pc # "dns") => last_error = NoText
    /\ (prev.kind = "choice" /\ prev.action = "reselect") => flow.ran
    /\ flow.ran =>
          /\ prev.kind = "choice" /\ prev.action = "reselect" /\ prev.stage = "apply"
          /\ ~result.success /\ last_error = result.error /\ flow.error = last_error
          /\ detect_server_type_error(flow.error).found
          /\ flow.current_type = detect_server_type_error(flow.error).server_type
          /\ flow.location = detect_server_type_error(flow.error).location
C39_Witness ==
    /\ flow.ran /\ flow.handled /\ flow.current_type = "cpx31" /\ flow.location = "hel1"
    /\ prev.kind = "choice" /\ prev.action = "reselect" /\ pc = "loop"

====
